---- MODULE Spec2Model ----
(***************************************************************************)
(* Hidden-form-field scanner (Autofill_Extension_Backend).                 *)
(*                                                                         *)
(* The repository holds several drafts of the same scan.  Each draft is a  *)
(* value of the variable `variant`:                                        *)
(*   "advanceScan"     src/src/services/advanceScan.service.ts             *)
(*                     (rendered tier, frames awaited with Promise.all)    *)
(*   "scanPageService" src/src/services/scanPage.service.ts:105-205        *)
(*                     (rendered tier, frames awaited one after another)   *)
(*   "part000"         src/unnamed/part_000:104-199                        *)
(*                     (rendered tier, frames started from an un-awaited   *)
(*                      async callback inside forEach)                     *)
(*   "simpleScan"      src/src/services/simpleScan.service.ts              *)
(*                     (static tier, JSDOM)                                *)
(*   "scanPageJsdom"   src/src/services/scanPage.service.ts:7-101          *)
(*                     (static tier, JSDOM, older draft)                   *)
(*                                                                         *)
(* The further scan drafts kept in src/unnamed/part_001 (single-document   *)
(* and frame-by-frame scans without ancestor checks) are not modelled as   *)
(* variants; SpecHandler models the two drafts of scanPageHandler.         *)
(*                                                                         *)
(* A string built by a template literal is modelled as the sequence of its *)
(* pieces, concatenation as \o.                                            *)
(***************************************************************************)
EXTENDS Integers, Sequences, FiniteSets, TLC

(***************************************************************************)
(* Bounds                                                                  *)
(***************************************************************************)
\* largest number of sub-frames of a scanned page
MaxFrames == 2
\* largest finding count fed to the risk table in SpecRisk
MaxCount == 12
\* largest number of hiding signals one probed element carries in SpecEval
MaxSignals == 2
\* number of nodes of the parent relations walked in SpecWalk
MaxNodes == 3
\* depth of nested calls at which the engine throws RangeError in SpecWalk
MaxStack == 5

(***************************************************************************)
(* Elements and documents                                                  *)
(*                                                                         *)
(* A document is the sequence of its elements in document order (the order *)
(* of querySelectorAll); `parent` is the index of the parent element, 0    *)
(* for a child of the root.  The style fields are the values               *)
(* getComputedStyle / getBoundingClientRect / offsetWidth return for the   *)
(* element.                                                                *)
(***************************************************************************)
\* a missing attribute: getAttribute returns null
Null == "<null>"

\* window.innerHeight of the rendering viewport
InnerHeight == 600
\* width of the viewport the documents of the catalogue are laid out in
InnerWidth == 800

\* a visible, laid-out text input that is a child of the root
VisibleInput ==
  [tag |-> "input", typeAttr |-> "text", name |-> "user", parent |-> 0,
   action |-> "", nameLen |-> 4, actionLen |-> 0, htmlLen |-> 40,
   inlineDisplay |-> "", inlineVisibility |-> "",
   cssWidth |-> "100px", cssHeight |-> "20px",
   display |-> "block", visibility |-> "visible", opacity |-> "1",
   clip |-> "auto", clipPath |-> "none", fontSize |-> "16px",
   position |-> "static", left |-> 0,
   rectTop |-> 100, rectLeft |-> 10, rectBottom |-> 120, rectWidth |-> 100, rectHeight |-> 20,
   offsetWidth |-> 100, offsetHeight |-> 20,
   ariaHidden |-> Null, overflow |-> "visible",
   color |-> "black", backgroundColor |-> "white"]

VisibleDiv ==
  [VisibleInput EXCEPT !.tag = "div", !.typeAttr = Null, !.name = Null,
                       !.nameLen = 0]
VisibleForm ==
  [VisibleInput EXCEPT !.tag = "form", !.typeAttr = Null, !.name = Null,
                       !.nameLen = 0,
                       !.action = "https://site/login", !.actionLen = 18]

\* the hiding signals an element of the catalogue may carry
WithStyle(el, s) ==
  CASE s = "none"       -> el
    [] s = "display"    -> [el EXCEPT !.display = "none",
                                      !.inlineDisplay = "none", !.rectWidth = 0,
                                      !.rectHeight = 0, !.offsetWidth = 0,
                                      !.offsetHeight = 0]
    [] s = "visibility" -> [el EXCEPT !.visibility = "hidden",
                                      !.inlineVisibility = "hidden"]
    [] s = "opacity"    -> [el EXCEPT !.opacity = "0"]
    [] s = "aria"       -> [el EXCEPT !.ariaHidden = "true"]
    [] s = "tiny"       -> [el EXCEPT !.rectWidth = 1, !.rectHeight = 1,
                                      !.offsetWidth = 1, !.offsetHeight = 1]

Styles == {"none", "display", "visibility", "opacity", "aria", "tiny"}

Child(el, p) == [el EXCEPT !.parent = p]
Named(el, n) == [el EXCEPT !.name = n, !.nameLen = 4]
Typed(el, t) == [el EXCEPT !.typeAttr = t]
Tagged(el, t) == [el EXCEPT !.tag = t]

(***************************************************************************)
(* DOM accessors                                                           *)
(***************************************************************************)
\* document.querySelectorAll("input, textarea, select")
IsInputLikeMutAll(el) == el.tag \in {"input", "textarea", "select", "div", "form"}
IsInputLike(el) == el.tag \in {"input", "textarea", "select"}

\* the input types the `type` IDL attribute of an <input> reflects
KnownInputTypes == {"text", "hidden", "password", "email", "checkbox"}

\* (input as HTMLInputElement).type || "text": the IDL attribute, which for an
\* <input> is the declared type limited to known values (default "text"), for
\* a <textarea> "textarea" and for a <select> "select-one"
InputTypeMutText(el) == "text"
InputType(el) ==
  LET prop == CASE el.tag = "input" ->
                     IF el.typeAttr \in KnownInputTypes THEN el.typeAttr ELSE "text"
                [] el.tag = "textarea" -> "textarea"
                [] el.tag = "select" -> "select-one"
                [] OTHER -> ""
  IN IF prop = "" THEN "text" ELSE prop

\* `${x}` of a possibly-null attribute
ToStr(v) == IF v = Null THEN "null" ELSE v

\* indices of the elements of doc that match "input, textarea, select"
InputIdx(doc) == {i \in 1..Len(doc) : IsInputLike(doc[i])}

\* the indices of S in increasing (document) order
RECURSIVE SortedSeq(_)
SortedSeq(S) ==
  IF S = {} THEN <<>>
  ELSE LET m == CHOOSE x \in S : \A y \in S : x <= y
       IN <<m>> \o SortedSeq(S \ {m})

\* the chain of ancestors of element i, nearest first (parentElement links)
RECURSIVE Ancestors(_, _)
Ancestors(doc, i) ==
  IF doc[i].parent = 0 THEN <<>>
  ELSE <<doc[i].parent>> \o Ancestors(doc, doc[i].parent)

(***************************************************************************)
(* advanceScan.service.ts: the rendered-tier evaluator                     *)
(***************************************************************************)
\* getHiddenReason: the first signal that fires, or Null
getHiddenReasonMutAriaFirst(el) ==
  IF el.ariaHidden = "true" THEN "Hidden via aria-hidden attribute"
  ELSE IF el.display = "none" THEN "Hidden via display: none"
  ELSE Null
getHiddenReason(el) ==
  IF el.display = "none" THEN "Hidden via display: none"
  ELSE IF el.visibility = "hidden" THEN "Hidden via visibility: hidden"
  ELSE IF el.opacity = "0" THEN "Hidden via opacity: 0"
  ELSE IF el.clip # "auto" /\ el.clip # "rect(auto, auto, auto, auto)"
    THEN "Hidden via clip property"
  ELSE IF el.clipPath # "none" THEN "Hidden via clip-path property"
  ELSE IF el.fontSize = "0px" THEN "Hidden via font-size: 0"
  ELSE IF el.position = "absolute" /\ el.left <= -9999
    THEN "Hidden via absolute off-screen positioning"
  ELSE IF el.position = "fixed"
          /\ (el.rectBottom <= 0 \/ el.rectTop >= InnerHeight)
    THEN "Hidden via fixed off-screen positioning"
  ELSE IF \/ el.rectWidth <= 10 \/ el.rectHeight <= 10
          \/ el.offsetWidth <= 10 \/ el.offsetHeight <= 10
    THEN "Hidden via zero size"
  ELSE IF el.ariaHidden = "true" THEN "Hidden via aria-hidden attribute"
  ELSE IF el.overflow = "hidden"
          /\ (el.rectBottom <= 0 \/ el.rectTop >= InnerHeight)
    THEN "Hidden via overflow hidden and off-screen"
  ELSE IF el.color = el.backgroundColor /\ el.color # ""
    THEN "Hidden via color matching background"
  ELSE Null

\* hasHiddenAncestor: walk the parent chain, first hidden ancestor wins
RECURSIVE AdvWalk(_, _)
AdvWalk(doc, chain) ==
  IF chain = <<>> THEN [hidden |-> FALSE, reason |-> <<>>]
  ELSE LET reason == getHiddenReason(doc[Head(chain)])
       IN IF reason # Null
            THEN [hidden |-> TRUE, reason |-> <<"Ancestor: ", reason>>]
            ELSE AdvWalk(doc, Tail(chain))

hasHiddenAncestor(doc, i) == AdvWalk(doc, Ancestors(doc, i))

(***************************************************************************)
(* Findings                                                                *)
(*                                                                         *)
(* One record shape for every draft; a field a draft does not produce is   *)
(* Undefined (strings) or <<>> (sequences).  `src` and `el` are history    *)
(* fields that are not part of the program's record: the index of the      *)
(* frame (0 = main document) and of the element the finding was made for.  *)
(***************************************************************************)
Undefined == "<undefined>"

Min(a, b) == IF a <= b THEN a ELSE b

TagLen(el) == CASE el.tag = "input" -> 5 [] el.tag = "textarea" -> 8
                [] el.tag = "select" -> 6 [] OTHER -> 4

\* `${input.tagName.toLowerCase()}[name="${input.getAttribute("name")}"]`
TagNameSelector(el) ==
  [text |-> <<el.tag, "[name=\"", ToStr(el.name), "\"]">>,
   len  |-> TagLen(el) + 7 + (IF el.name = Null THEN 4 ELSE el.nameLen) + 2]

\* `form[action="${form.action}"] input[name="${name}"]`
FormSelector(form, el) ==
  [text |-> <<"form[action=\"", form.action, "\"] input[name=\"",
              ToStr(el.name), "\"]">>,
   len  |-> 13 + form.actionLen + 15
            + (IF el.name = Null THEN 4 ELSE el.nameLen) + 2]

\* input.outerHTML.slice(0, 100)
OuterHTMLSlice(el) ==
  [text |-> <<"outerHTML[0,100) of ", el.tag, ToStr(el.name)>>,
   len  |-> Min(el.htmlLen, 100)]

\* the location tags
MainPage == <<"main page">>
IframeTagMutMainPage(url) == <<"main page">>
IframeTag(url) == <<"iframe (", url, ")">>

\* boundingBox of getBoundingClientRect()
BoundingBox(el) == <<el.rectTop, el.rectLeft, el.rectWidth, el.rectHeight>>

\* the finding of advanceScan.service.ts: {selector, suspicious, reason}
AdvFinding(src, i, el, reason, location) ==
  [src |-> src, el |-> i,
   name |-> Undefined, type |-> Undefined,
   reason |-> reason \o <<" (">> \o location \o <<")">>,
   location |-> <<>>,
   selector |-> TagNameSelector(el),
   suspicious |-> TRUE, boundingBox |-> <<>>]

\* what inputs.forEach pushes for element i of doc (advanceScan 78-104)
AdvItem(doc, src, i, location) ==
  IF InputType(doc[i]) = "hidden" THEN <<>>
  ELSE LET reason == getHiddenReason(doc[i])
           ancestorCheck == hasHiddenAncestor(doc, i)
       IN IF reason # Null
            THEN <<AdvFinding(src, i, doc[i], <<reason>>, location)>>
          ELSE IF ancestorCheck.hidden
            THEN <<AdvFinding(src, i, doc[i], ancestorCheck.reason, location)>>
          ELSE <<>>

RECURSIVE AdvFrom(_, _, _, _)
AdvFrom(doc, src, k, location) ==
  IF k > Len(doc) THEN <<>>
  ELSE (IF IsInputLike(doc[k]) THEN AdvItem(doc, src, k, location) ELSE <<>>)
       \o AdvFrom(doc, src, k + 1, location)

\* evaluateHiddenFields(frame, location) of advanceScan.service.ts
AdvEvaluateHiddenFields(doc, src, location) == AdvFrom(doc, src, 1, location)

(***************************************************************************)
(* scanPage.service.ts:117-176 and part_000:118-174: the older rendered    *)
(* evaluator                                                               *)
(***************************************************************************)
\* isHidden(el) inside frame.evaluate
isHidden(el) ==
  \/ el.display = "none"
  \/ el.visibility = "hidden"
  \/ el.opacity = "0"
  \/ el.offsetWidth = 0
  \/ el.offsetHeight = 0
  \/ el.typeAttr = "hidden"
  \/ el.ariaHidden = "true"

\* hasHiddenAncestor(el) inside frame.evaluate
RenderedHasHiddenAncestor(doc, i) ==
  \E k \in 1..Len(Ancestors(doc, i)) : isHidden(doc[Ancestors(doc, i)[k]])

\* the FieldDetail pushed by scanPage.service.ts:156-170
SvcFinding(src, i, el, location) ==
  [src |-> src, el |-> i,
   name |-> el.name, type |-> InputType(el),
   reason |-> <<"Hidden via CSS, type, or hidden ancestor">>,
   location |-> location,
   selector |-> TagNameSelector(el),
   suspicious |-> Undefined, boundingBox |-> BoundingBox(el)]

\* the FieldDetail pushed by part_000:157-169; location is the literal
\* "main page" whatever document the function runs in
P0Finding(src, i, el) ==
  [src |-> src, el |-> i,
   name |-> el.name, type |-> InputType(el),
   reason |-> <<"Hidden via CSS, type, or hidden ancestor">>,
   location |-> MainPage,
   selector |-> OuterHTMLSlice(el),
   suspicious |-> Undefined, boundingBox |-> BoundingBox(el)]

RECURSIVE SvcFrom(_, _, _, _)
SvcFrom(doc, src, k, location) ==
  IF k > Len(doc) THEN <<>>
  ELSE (IF IsInputLike(doc[k])
           /\ (isHidden(doc[k]) \/ RenderedHasHiddenAncestor(doc, k))
          THEN <<SvcFinding(src, k, doc[k], location)>> ELSE <<>>)
       \o SvcFrom(doc, src, k + 1, location)

\* evaluateHiddenFields(frame, location) of scanPage.service.ts
SvcEvaluateHiddenFields(doc, src, location) == SvcFrom(doc, src, 1, location)

RECURSIVE P0From(_, _, _)
P0From(doc, src, k) ==
  IF k > Len(doc) THEN <<>>
  ELSE (IF IsInputLike(doc[k])
           /\ (isHidden(doc[k]) \/ RenderedHasHiddenAncestor(doc, k))
          THEN <<P0Finding(src, k, doc[k])>> ELSE <<>>)
       \o P0From(doc, src, k + 1)

\* evaluateHiddenFields() of part_000
P0EvaluateHiddenFields(doc, src) == P0From(doc, src, 1)

\* iframeHiddenFields.forEach((field) => field.location === "iframe"): a
\* comparison whose result is dropped; the fields are left as they were
P0TagIframe(fields) == fields

(***************************************************************************)
(* simpleScan.service.ts: the static-tier scan                             *)
(***************************************************************************)
\* isStaticallyHiddenWithReason / hasStaticallyHiddenAncestor call each other:
\* the ancestor walk applies the whole check, ancestors included, to each
\* parent in turn
RECURSIVE isStaticallyHiddenWithReason(_, _), StaticWalk(_, _)
isStaticallyHiddenWithReason(doc, i) ==
  LET el == doc[i]
  IN IF el.display = "none"
       THEN [isHidden |-> TRUE, reason |-> <<"Hidden via display: none">>]
     ELSE IF el.visibility = "hidden"
       THEN [isHidden |-> TRUE, reason |-> <<"Hidden via visibility: hidden">>]
     ELSE IF el.opacity = "0"
       THEN [isHidden |-> TRUE, reason |-> <<"Hidden via opacity: 0">>]
     ELSE IF el.ariaHidden = "true"
       THEN [isHidden |-> TRUE, reason |-> <<"Hidden via aria-hidden attribute">>]
     ELSE LET ancestor == StaticWalk(doc, el.parent)
          IN IF ancestor.isHidden
               THEN [isHidden |-> TRUE,
                     reason |-> <<"Ancestor: ">> \o ancestor.reason]
               ELSE [isHidden |-> FALSE, reason |-> <<>>]

\* the while (parent) loop of hasStaticallyHiddenAncestor, from parent p
StaticWalk(doc, p) ==
  IF p = 0 THEN [isHidden |-> FALSE, reason |-> <<>>]
  ELSE LET r == isStaticallyHiddenWithReason(doc, p)
       IN IF r.isHidden THEN [isHidden |-> TRUE, reason |-> r.reason]
          ELSE StaticWalk(doc, doc[p].parent)

hasStaticallyHiddenAncestor(doc, i) == StaticWalk(doc, doc[i].parent)

\* a || b || c on strings: the first non-empty one
OrElse(a, b, c) == IF a # "" THEN a ELSE IF b # "" THEN b ELSE c

\* document.querySelectorAll("form"), in document order
FormIdx(doc) == {i \in 1..Len(doc) : doc[i].tag = "form"}

\* element i is a descendant of element f
IsDescendant(doc, i, f) ==
  \E k \in 1..Len(Ancestors(doc, i)) : Ancestors(doc, i)[k] = f

\* input.closest("form") is not null
HasClosestForm(doc, i) ==
  \/ doc[i].tag = "form"
  \/ \E k \in 1..Len(Ancestors(doc, i)) : doc[Ancestors(doc, i)[k]].tag = "form"

SimpleFinding(i, selector, reason) ==
  [src |-> 0, el |-> i, name |-> Undefined, type |-> Undefined,
   reason |-> reason, location |-> <<>>, selector |-> selector,
   suspicious |-> TRUE, boundingBox |-> <<>>]

\* inputs.forEach of one form (simpleScan 39-57), from element k on
RECURSIVE SimpleFormFrom(_, _, _, _)
SimpleFormFrom(doc, url, f, k) ==
  IF k > Len(doc) THEN <<>>
  ELSE LET r == isStaticallyHiddenWithReason(doc, k)
       IN (IF /\ IsInputLike(doc[k]) /\ IsDescendant(doc, k, f)
              /\ InputType(doc[k]) # "hidden"
              /\ r.isHidden
             THEN <<SimpleFinding(k, FormSelector(doc[f], doc[k]),
                      r.reason \o <<" (within form: ",
                                    OrElse(doc[f].action, url, "unknown"),
                                    ")">>)>>
             ELSE <<>>)
          \o SimpleFormFrom(doc, url, f, k + 1)

\* forms.forEach (simpleScan 34-58), over the forms listed in fs
RECURSIVE SimpleForms(_, _, _)
SimpleForms(doc, url, fs) ==
  IF fs = <<>> THEN <<>>
  ELSE SimpleFormFrom(doc, url, Head(fs), 1) \o SimpleForms(doc, url, Tail(fs))

\* allInputs.forEach (simpleScan 65-79), from element k on
RECURSIVE SimpleOrphansFrom(_, _)
SimpleOrphansFrom(doc, k) ==
  IF k > Len(doc) THEN <<>>
  ELSE LET r == isStaticallyHiddenWithReason(doc, k)
       IN (IF /\ IsInputLike(doc[k])
              /\ InputType(doc[k]) # "hidden"
              /\ r.isHidden /\ ~HasClosestForm(doc, k)
             THEN <<SimpleFinding(k, OuterHTMLSlice(doc[k]),
                                  r.reason \o <<" (orphan input)">>)>>
             ELSE <<>>)
          \o SimpleOrphansFrom(doc, k + 1)

\* the hiddenFields array detectHiddenFormsWithJSDOM (simpleScan) builds
SimpleScanFields(doc, url) ==
  SimpleForms(doc, url, SortedSeq(FormIdx(doc))) \o SimpleOrphansFrom(doc, 1)

(***************************************************************************)
(* scanPage.service.ts:7-101: the older static-tier scan                   *)
(***************************************************************************)
\* parseFloat(v) === 0 for a computed width / height
ParseFloatIsZero(v) == v \in {"0", "0px"}

\* JSDOM does no layout: offsetWidth and offsetHeight are 0 for every element
JsdomOffset(el) == 0

\* isElementHidden(el, window)
isElementHidden(el) ==
  \/ el.display = "none"
  \/ el.visibility = "hidden"
  \/ el.opacity = "0"
  \/ ParseFloatIsZero(el.cssWidth)
  \/ ParseFloatIsZero(el.cssHeight)

\* hasHiddenAncestor(el, window)
JsdomHasHiddenAncestor(doc, i) ==
  \E k \in 1..Len(Ancestors(doc, i)) : isElementHidden(doc[Ancestors(doc, i)[k]])

JsdomFinding(i, name, type, reason, location, selector) ==
  [src |-> 0, el |-> i, name |-> name, type |-> type,
   reason |-> <<reason>>, location |-> <<location>>, selector |-> selector,
   suspicious |-> Undefined, boundingBox |-> <<>>]

\* inputs.forEach of one form (scanPage.service.ts 38-60)
RECURSIVE JsdomFormFrom(_, _, _, _)
JsdomFormFrom(doc, url, f, k) ==
  IF k > Len(doc) THEN <<>>
  ELSE LET input == doc[k]
           type == InputType(input)
           hiddenByStyle == isElementHidden(input) \/ JsdomHasHiddenAncestor(doc, k)
           hidden == \/ type = "hidden"
                     \/ JsdomOffset(input) = 0
                     \/ JsdomOffset(input) = 0
                     \/ input.inlineDisplay = "none"
                     \/ input.inlineVisibility = "hidden"
                     \/ hiddenByStyle
       IN (IF IsInputLike(input) /\ IsDescendant(doc, k, f) /\ hidden
             THEN <<JsdomFinding(k, input.name, type, "Element is hidden",
                                 OrElse(doc[f].action, url, "unknown"),
                                 FormSelector(doc[f], input))>>
             ELSE <<>>)
          \o JsdomFormFrom(doc, url, f, k + 1)

RECURSIVE JsdomForms(_, _, _)
JsdomForms(doc, url, fs) ==
  IF fs = <<>> THEN <<>>
  ELSE JsdomFormFrom(doc, url, Head(fs), 1) \o JsdomForms(doc, url, Tail(fs))

\* allInputs.forEach over document.querySelectorAll("input")
\* (scanPage.service.ts 64-94)
RECURSIVE JsdomOrphansFrom(_, _)
JsdomOrphansFrom(doc, k) ==
  IF k > Len(doc) THEN <<>>
  ELSE LET input == doc[k]
           type == IF input.typeAttr \in {Null, ""} THEN "text" ELSE input.typeAttr
           hiddenByStyle == isElementHidden(input) \/ JsdomHasHiddenAncestor(doc, k)
           hidden == \/ type = "hidden"
                     \/ JsdomOffset(input) = 0
                     \/ JsdomOffset(input) = 0
                     \/ input.inlineDisplay = "none"
                     \/ input.inlineVisibility = "hidden"
                     \/ input.ariaHidden = "true"
                     \/ hiddenByStyle
       IN (IF input.tag = "input" /\ hidden /\ ~HasClosestForm(doc, k)
             THEN <<JsdomFinding(k, input.name, type,
                                 "Hidden input not within a form", "main page",
                                 OuterHTMLSlice(input))>>
             ELSE <<>>)
          \o JsdomOrphansFrom(doc, k + 1)

\* the hiddenFields array detectHiddenFormsWithJSDOM (scanPage.service) builds
JsdomScanFields(doc, url) ==
  JsdomForms(doc, url, SortedSeq(FormIdx(doc))) \o JsdomOrphansFrom(doc, 1)

(***************************************************************************)
(* Risk level and recommendations                                          *)
(***************************************************************************)
\* advanceScan.service.ts 139-144
AdvRiskLevel(n) ==
  IF n >= 3 /\ n < 6 THEN "medium"
  ELSE IF n >= 7 THEN "high"
  ELSE "low"

\* simpleScan.service.ts 82-87
SimpleRiskLevel(n) ==
  IF n >= 5 /\ n < 10 THEN "medium"
  ELSE IF n >= 10 THEN "high"
  ELSE "low"

\* advanceScan.service.ts 146-154
AdvRecommendationsMutReviewOnly(n) ==
  IF n > 0
    THEN <<"Review hidden fields to ensure they are not used for malicious autofill.">>
    ELSE <<"No suspicious hidden fields detected.">>
AdvRecommendations(n) ==
  IF n > 0
    THEN <<"Review hidden fields to ensure they are not used for malicious autofill.",
           "Block autofill on hidden or suspicious fields.">>
    ELSE <<"No suspicious hidden fields detected.">>

\* simpleScan.service.ts 89-99
SimpleRecommendations(n) ==
  IF n > 0
    THEN <<"Review hidden fields to ensure they are not used for malicious autofill.",
           "Consider blocking autofill on suspicious or hidden fields.">>
    ELSE <<"No suspicious hidden fields detected.">>

\* the report of the catch block
ScanFailed == <<"Scan failed. Please retry or check the page manually.">>

(***************************************************************************)
(* The pages scanned                                                       *)
(***************************************************************************)
Variants == {"advanceScan", "scanPageService", "part000", "simpleScan",
             "scanPageJsdom"}
Rendered == {"advanceScan", "scanPageService", "part000"}
Static == {"simpleScan", "scanPageJsdom"}
\* the drafts whose report carries metadata {riskLevel, recommendations}
WithMetadata == {"advanceScan", "simpleScan"}

PageUrl == "https://site/"
Urls == {PageUrl, "ftp://site/"}
\* url.startsWith("http")
StartsWithHttp(u) == u \in {"https://site/", "https://ads/1", "https://ads/2"}

DocEmpty == <<>>
\* a hidden div holding a form, no input-like element
DocNoInputs == <<WithStyle(VisibleDiv, "display"), Child(VisibleForm, 1)>>
\* one form holding one input[type=hidden]
DocHiddenType(s1, s2) ==
  <<WithStyle(VisibleForm, s1),
    Child(Typed(WithStyle(VisibleInput, s2), "hidden"), 1)>>
\* an input[type=hidden] outside any form, under a hidden div
DocHiddenOrphan ==
  <<WithStyle(VisibleDiv, "display"), Child(Typed(VisibleInput, "hidden"), 1)>>
\* seven inputs outside any form, each with visibility: hidden
DocSevenOrphans == [i \in 1..7 |-> WithStyle(VisibleInput, "visibility")]
\* one form holding seven inputs, each with visibility: hidden
DocSevenInForm ==
  <<VisibleForm>> \o [i \in 1..7 |-> Child(WithStyle(VisibleInput, "visibility"), 1)]
DocMixed ==
  <<WithStyle(VisibleDiv, "display"),
    Child(VisibleInput, 1),
    WithStyle(Named(VisibleInput, "mail"), "opacity"),
    Tagged(VisibleInput, "textarea"),
    WithStyle(Tagged(VisibleInput, "select"), "aria"),
    VisibleForm,
    Child(WithStyle(VisibleInput, "visibility"), 6),
    Child(Typed(WithStyle(VisibleInput, "tiny"), "hidden"), 6)>>

\* no hiding signal anywhere: a form holding a visible input, a visible
\* orphan input, and an orphan input whose computed width is 0
DocPlain ==
  <<VisibleForm,
    Child(VisibleInput, 1),
    Named(VisibleInput, "mail"),
    [Named(VisibleInput, "code") EXCEPT !.cssWidth = "0px"]>>

\* long attribute values: a form whose action has 90 characters holding a
\* hidden input whose name has 120, and such an input outside any form
DocLongNames ==
  <<[VisibleForm EXCEPT !.action = "https://site/a-long-path", !.actionLen = 90],
    Child([WithStyle(Named(VisibleInput, "a-long-name"), "visibility")
             EXCEPT !.nameLen = 120, !.htmlLen = 200], 1),
    [WithStyle(Named(VisibleInput, "a-long-name"), "opacity")
       EXCEPT !.nameLen = 120, !.htmlLen = 200]>>

\* a form nested in a form, as the HTML parser builds it from
\* <form><div></form><form><input>: the inner form holds a hidden input
DocNestedForms ==
  <<VisibleForm,
    Child(VisibleDiv, 1),
    Child([VisibleForm EXCEPT !.action = "https://site/inner"], 2),
    Child(WithStyle(VisibleInput, "display"), 3)>>

HiddenTypeStyles == {"none", "display", "visibility"}

MainDocs ==
  {DocEmpty, DocNoInputs, DocHiddenOrphan, DocSevenOrphans, DocSevenInForm,
   DocMixed, DocPlain, DocLongNames, DocNestedForms}
  \cup {DocHiddenType(s1, s2) : s1 \in HiddenTypeStyles, s2 \in HiddenTypeStyles}

FrameDocOne == <<WithStyle(Named(VisibleInput, "card"), "display")>>
FrameDocTwo ==
  <<VisibleInput,
    WithStyle(Tagged(VisibleInput, "textarea"), "aria"),
    WithStyle(Tagged(VisibleInput, "select"), "opacity")>>
FrameDocVisible == <<VisibleInput>>
\* a frame with markup but no input-like element
FrameDocNoInputs == <<WithStyle(VisibleDiv, "opacity")>>

\* a sub-frame: its URL, its document, and whether evaluating a script in it
\* fails (cross-origin denial, detached frame)
FrameKinds ==
  {[url |-> "https://ads/1", doc |-> FrameDocOne, throws |-> FALSE],
   [url |-> "https://ads/2", doc |-> FrameDocTwo, throws |-> FALSE],
   [url |-> "https://ads/1", doc |-> FrameDocOne, throws |-> TRUE],
   [url |-> PageUrl, doc |-> FrameDocOne, throws |-> FALSE],
   [url |-> "https://ads/2", doc |-> FrameDocVisible, throws |-> FALSE],
   [url |-> "https://ads/1", doc |-> FrameDocNoInputs, throws |-> FALSE]}

\* the sequences over S of length at most n
SeqsUpTo(S, n) == UNION {[1..k -> S] : k \in 0..n}

Pages ==
  {[main |-> d, frames |-> fs] : d \in MainDocs, fs \in SeqsUpTo(FrameKinds, MaxFrames)}

(***************************************************************************)
(* State                                                                   *)
(***************************************************************************)
VARIABLES
  variant,      \* which draft of the scan runs
  url,          \* the url argument
  page,         \* the page behind the url: main document and sub-frames
  helpers,      \* part000: isHidden / hasHiddenAncestor resolve in the page
  pc,           \* position of the scan function
  browser,      \* "none", "open" or "closed"
  task,         \* per sub-frame: state of its frame.evaluate promise
  results,      \* advanceScan: iframeResults, per sub-frame
  hiddenFields, \* the array the findings are pushed to
  idx,          \* scanPageService: position of the for..of loop
  meta,         \* riskLevel and recommendations computed before the return
  retKind,      \* which return statement was taken
  report,       \* the value the caller receives when the promise resolves
  completion,   \* history: the sub-frames in the order their evaluations settled
  riskIn,       \* SpecRisk: the tier and the two counts fed to the risk table
  riskOut,      \* SpecRisk: the two levels it returned
  evals,        \* history: how often each frame (0 = main) was handed to evaluate
  hung,         \* the sub-frames whose evaluation never settles
  handler,      \* SpecHandler: the request and the state of scanPageHandler
  walk,         \* SpecWalk: the state of one ancestor walk
  probe         \* SpecEval: a document, the tier and the findings of its scan

scanVars == <<variant, url, page, helpers, pc, browser, task, results,
              hiddenFields, idx, meta, retKind, report, completion>>
riskVars == <<riskIn, riskOut>>
auxVars == <<hung, handler, walk, probe>>
vars == <<variant, url, page, helpers, pc, browser, task, results,
          hiddenFields, idx, meta, retKind, report, completion, riskIn,
          riskOut, evals, hung, handler, walk, probe>>

NFrames == Len(page.frames)
FrameIds == 1..NFrames

NoMeta == [riskLevel |-> Undefined, recommendations |-> <<>>]
NoReport == [hiddenFields |-> <<>>, riskLevel |-> Undefined,
             recommendations |-> <<>>]
NoRisk == [ln |-> Undefined, lm |-> Undefined]
\* the values of the variables of a specification that is not running
IdleHandler == [pc |-> "idle"]
IdleWalk == [pc |-> "idle"]
IdleProbe == [pc |-> "idle"]

\* hiddenFields.push(...items)
PushMutUnshift(arr, items) == items \o arr
Push(arr, items) == arr \o items

\* the value of the catch block's return statement
FallbackReport ==
  IF variant \in WithMetadata
    THEN [hiddenFields |-> <<>>, riskLevel |-> "low",
          recommendations |-> ScanFailed]
    ELSE NoReport

Init ==
  /\ variant \in Variants
  /\ url \in Urls
  /\ page \in Pages
  /\ helpers \in (IF variant = "part000" THEN BOOLEAN ELSE {TRUE})
  /\ pc = "start"
  /\ browser = "none"
  /\ task = [i \in FrameIds |-> "idle"]
  /\ results = [i \in FrameIds |-> <<>>]
  /\ hiddenFields = <<>>
  /\ idx = 0
  /\ meta = NoMeta
  /\ retKind = "none"
  /\ report = NoReport
  /\ completion = <<>>
  /\ riskIn = [tier |-> "none", n |-> 0, m |-> 0]
  /\ riskOut = NoRisk
  /\ evals = [i \in 0..NFrames |-> 0]
  /\ hung = {}
  /\ handler = IdleHandler
  /\ walk = IdleWalk
  /\ probe = IdleProbe

(***************************************************************************)
(* Rendered tier: detectHiddenFormsWithPuppeteer                           *)
(***************************************************************************)
\* part000 hands page.evaluate a function that calls isHidden and
\* hasHiddenAncestor, which are declared in the Node scope (part_000 118-139):
\* in a page that does not define them the call throws as soon as the
\* document has one input-like element
HelperMissing(doc) ==
  variant = "part000" /\ ~helpers /\ InputIdx(doc) # {}

\* page.frames().filter(...): the sub-frames the draft goes on to evaluate.
\* advanceScan and scanPageService drop the main frame by identity; part000
\* drops every frame whose URL equals page.url()
Traversed(i) ==
  IF variant = "part000" THEN page.frames[i].url # url ELSE TRUE

\* the findings evaluateHiddenFields returns for the main document
MainFields ==
  CASE variant = "advanceScan" -> AdvEvaluateHiddenFields(page.main, 0, MainPage)
    [] variant = "scanPageService" -> SvcEvaluateHiddenFields(page.main, 0, MainPage)
    [] variant = "part000" -> P0EvaluateHiddenFields(page.main, 0)

\* the findings evaluateHiddenFields returns for sub-frame i
FrameFields(i) ==
  LET f == page.frames[i]
  IN CASE variant = "advanceScan" ->
            AdvEvaluateHiddenFields(f.doc, i, IframeTag(f.url))
       [] variant = "scanPageService" ->
            SvcEvaluateHiddenFields(f.doc, i, IframeTag(f.url))
       [] variant = "part000" -> P0TagIframe(P0EvaluateHiddenFields(f.doc, i))

\* evaluating sub-frame i rejects
FrameThrows(i) == page.frames[i].throws \/ HelperMissing(page.frames[i].doc)

\* const browser = await puppeteer.launch(...): outside the try block
Launch ==
  /\ variant \in Rendered /\ pc = "start"
  /\ \E ok \in BOOLEAN :
       IF ok THEN browser' = "open" /\ pc' = "newPage"
             ELSE browser' = browser /\ pc' = "thrown"
  /\ UNCHANGED <<variant, url, page, helpers, task, results, hiddenFields, idx,
                 meta, retKind, report, completion, riskVars,
                 evals, auxVars>>

\* const page = await browser.newPage(): outside the try block
NewPage ==
  /\ pc = "newPage"
  /\ \E ok \in BOOLEAN : pc' = IF ok THEN "goto" ELSE "thrown"
  /\ UNCHANGED <<variant, url, page, helpers, browser, task, results,
                 hiddenFields, idx, meta, retKind, report, completion, riskVars,
                 evals, auxVars>>

\* await page.goto(url, ...) and, in the older drafts, the settle delay
Goto ==
  /\ pc = "goto"
  /\ \E ok \in BOOLEAN : pc' = IF ok THEN "evalMain" ELSE "catch"
  /\ UNCHANGED <<variant, url, page, helpers, browser, task, results,
                 hiddenFields, idx, meta, retKind, report, completion, riskVars,
                 evals, auxVars>>

\* the main-frame evaluation and the push / assignment of its result
EvalMain ==
  /\ pc = "evalMain"
  /\ evals' = [evals EXCEPT ![0] = @ + 1]
  /\ \E ok \in BOOLEAN :
       IF ok /\ ~HelperMissing(page.main)
         THEN /\ hiddenFields' = IF variant = "scanPageService"
                                   THEN MainFields
                                   ELSE Push(hiddenFields, MainFields)
              /\ pc' = "frames"
         ELSE /\ hiddenFields' = hiddenFields
              /\ pc' = "catch"
  /\ UNCHANGED <<variant, url, page, helpers, browser, task, results, idx,
                 meta, retKind, report, completion, riskVars,
                 auxVars>>

\* advanceScan 124-134: every sub-frame evaluation is started, then
\* Promise.all is awaited
AdvStartFrames ==
  /\ variant = "advanceScan" /\ pc = "frames"
  /\ task' = [i \in FrameIds |-> "pending"]
  /\ evals' = [i \in 0..NFrames |-> IF i \in FrameIds THEN evals[i] + 1 ELSE evals[i]]
  /\ pc' = "awaitAll"
  /\ UNCHANGED <<variant, url, page, helpers, browser, results, hiddenFields,
                 idx, meta, retKind, report, completion, riskVars,
                 auxVars>>

\* scanPageService 185-186: enter the for..of loop
SvcEnterLoop ==
  /\ variant = "scanPageService" /\ pc = "frames"
  /\ idx' = 1
  /\ pc' = "loop"
  /\ UNCHANGED <<variant, url, page, helpers, browser, task, results,
                 hiddenFields, meta, retKind, report, completion, riskVars,
                 evals, auxVars>>

\* scanPageService 188-191: await the evaluation of the next sub-frame
SvcNextFrame ==
  /\ pc = "loop" /\ idx <= NFrames /\ task[idx] = "idle"
  /\ task' = [task EXCEPT ![idx] = "pending"]
  /\ evals' = [evals EXCEPT ![idx] = @ + 1]
  /\ UNCHANGED <<variant, url, page, helpers, pc, browser, results,
                 hiddenFields, idx, meta, retKind, report, completion, riskVars,
                 auxVars>>

\* scanPageService 198: return { hiddenFields } once the loop is over
SvcReturn ==
  /\ pc = "loop" /\ idx > NFrames
  /\ retKind' = "normal"
  /\ pc' = "finally"
  /\ UNCHANGED <<variant, url, page, helpers, browser, task, results,
                 hiddenFields, idx, meta, report, completion, riskVars,
                 evals, auxVars>>

\* part000 181-192: forEach runs every async callback up to its first await,
\* awaits none of them, and the function goes on to return { hiddenFields }
P0ForEachReturn ==
  /\ variant = "part000" /\ pc = "frames"
  /\ task' = [i \in FrameIds |-> IF Traversed(i) THEN "pending" ELSE "skipped"]
  /\ evals' = [i \in 0..NFrames |->
                 IF i \in FrameIds /\ Traversed(i) THEN evals[i] + 1 ELSE evals[i]]
  /\ retKind' = "normal"
  /\ pc' = "finally"
  /\ UNCHANGED <<variant, url, page, helpers, browser, results, hiddenFields,
                 idx, meta, report, completion, riskVars,
                 auxVars>>

\* the evaluation of sub-frame i resolves, and the code that awaits it runs;
\* an evaluation still pending when the browser is closed can only reject
FrameResolve(i) ==
  /\ task[i] = "pending" /\ ~FrameThrows(i) /\ browser = "open"
  /\ i \notin hung
  /\ task' = [task EXCEPT ![i] = "ok"]
  /\ completion' = Append(completion, i)
  /\ CASE variant = "advanceScan" ->
            /\ results' = [results EXCEPT ![i] = FrameFields(i)]
            /\ UNCHANGED <<hiddenFields, idx>>
       [] variant = "scanPageService" ->
            /\ hiddenFields' = Push(hiddenFields, FrameFields(i))
            /\ idx' = idx + 1
            /\ UNCHANGED results
       [] variant = "part000" ->
            /\ hiddenFields' = Push(hiddenFields, FrameFields(i))
            /\ UNCHANGED <<results, idx>>
  /\ UNCHANGED <<variant, url, page, helpers, pc, browser, meta, retKind,
                 report, riskVars,
                 evals, auxVars>>

\* where the scan function stands after a sub-frame evaluation rejected: the
\* rejection is caught per frame (.catch / try..catch around the one
\* evaluation), so the function stays where it was
FrameErrorPcMutAbort(p) == "catch"
FrameErrorPc(p) == p

\* the evaluation of sub-frame i rejects (the frame throws, or the browser was
\* closed under it) and the catch handler runs
FrameReject(i) ==
  /\ task[i] = "pending" /\ (FrameThrows(i) \/ browser = "closed")
  /\ i \notin hung \/ browser = "closed"
  /\ task' = [task EXCEPT ![i] = "failed"]
  /\ completion' = Append(completion, i)
  /\ pc' = FrameErrorPc(pc)
  /\ CASE variant = "advanceScan" ->
            /\ results' = [results EXCEPT ![i] = <<>>]
            /\ UNCHANGED idx
       [] variant = "scanPageService" ->
            /\ idx' = idx + 1
            /\ UNCHANGED results
       [] variant = "part000" ->
            UNCHANGED <<results, idx>>
  /\ UNCHANGED <<variant, url, page, helpers, browser, hiddenFields, meta,
                 retKind, report, riskVars,
                 evals, auxVars>>

\* iframeResults.forEach((result) => allHiddenFields.push(...result))
RECURSIVE PushAll(_, _, _)
PushAll(arr, res, k) ==
  IF k > Len(res) THEN arr ELSE PushAll(Push(arr, res[k]), res, k + 1)

\* advanceScan 136-164: Promise.all has resolved; merge, rate, return
AdvMerge ==
  /\ pc = "awaitAll" /\ \A i \in FrameIds : task[i] \in {"ok", "failed"}
  /\ hiddenFields' = PushAll(hiddenFields, results, 1)
  /\ meta' = [riskLevel |-> AdvRiskLevel(Len(hiddenFields')),
              recommendations |-> AdvRecommendations(Len(hiddenFields'))]
  /\ retKind' = "normal"
  /\ pc' = "finally"
  /\ UNCHANGED <<variant, url, page, helpers, browser, task, results, idx,
                 report, completion, riskVars,
                 evals, auxVars>>

\* the catch block of the rendered drafts
Catch ==
  /\ pc = "catch"
  /\ retKind' = "fallback"
  /\ pc' = "finally"
  /\ UNCHANGED <<variant, url, page, helpers, browser, task, results,
                 hiddenFields, idx, meta, report, completion, riskVars,
                 evals, auxVars>>

\* finally { await browser.close() }, after which the promise resolves with
\* the returned object; its hiddenFields is the array itself
Finally ==
  /\ pc = "finally"
  /\ browser' = "closed"
  /\ report' = IF retKind = "fallback" THEN FallbackReport
               ELSE [hiddenFields |-> hiddenFields,
                     riskLevel |-> meta.riskLevel,
                     recommendations |-> meta.recommendations]
  /\ pc' = "done"
  /\ UNCHANGED <<variant, url, page, helpers, task, results, hiddenFields, idx,
                 meta, retKind, completion, riskVars,
                 evals, auxVars>>

(***************************************************************************)
(* Static tier: detectHiddenFormsWithJSDOM                                 *)
(***************************************************************************)
\* the url check and await axios.get(url), both inside the try block
JsdomFetch ==
  /\ variant \in Static /\ pc = "start"
  /\ \E ok \in BOOLEAN :
       pc' = IF StartsWithHttp(url) /\ ok THEN "parsed" ELSE "catch"
  /\ UNCHANGED <<variant, url, page, helpers, browser, task, results,
                 hiddenFields, idx, meta, retKind, report, completion, riskVars,
                 evals, auxVars>>

\* the two loops, the risk table and the return, all synchronous.  The
\* `if (!win)` return is left out: document.defaultView of a document JSDOM
\* has just built is never null
JsdomScan ==
  /\ pc = "parsed"
  /\ hiddenFields' = IF variant = "simpleScan"
                       THEN SimpleScanFields(page.main, url)
                       ELSE JsdomScanFields(page.main, url)
  /\ meta' = IF variant = "simpleScan"
               THEN [riskLevel |-> SimpleRiskLevel(Len(hiddenFields')),
                     recommendations |-> SimpleRecommendations(Len(hiddenFields'))]
               ELSE NoMeta
  /\ retKind' = "normal"
  /\ report' = [hiddenFields |-> hiddenFields',
                riskLevel |-> meta'.riskLevel,
                recommendations |-> meta'.recommendations]
  /\ pc' = "done"
  /\ UNCHANGED <<variant, url, page, helpers, browser, task, results, idx,
                 completion, riskVars,
                 evals, auxVars>>

\* the catch block of the static drafts
JsdomCatch ==
  /\ variant \in Static /\ pc = "catch"
  /\ retKind' = "fallback"
  /\ report' = FallbackReport
  /\ pc' = "done"
  /\ UNCHANGED <<variant, url, page, helpers, browser, task, results,
                 hiddenFields, idx, meta, completion, riskVars,
                 evals, auxVars>>

Next ==
  \/ Launch \/ NewPage \/ Goto \/ EvalMain
  \/ AdvStartFrames \/ SvcEnterLoop \/ SvcNextFrame \/ SvcReturn
  \/ P0ForEachReturn
  \/ \E i \in FrameIds : FrameResolve(i)
  \/ \E i \in FrameIds : FrameReject(i)
  \/ AdvMerge \/ Catch \/ Finally
  \/ JsdomFetch \/ JsdomScan \/ JsdomCatch

Spec == Init /\ [][Next]_vars

(***************************************************************************)
(* The risk table on its own                                               *)
(***************************************************************************)
RiskLevel(tier, n) ==
  IF tier = "advanceScan" THEN AdvRiskLevel(n) ELSE SimpleRiskLevel(n)

InitRisk ==
  /\ variant = "none"
  /\ url = PageUrl
  /\ page = [main |-> DocEmpty, frames |-> <<>>]
  /\ helpers = TRUE
  /\ pc = "risk"
  /\ browser = "none"
  /\ task = <<>>
  /\ results = <<>>
  /\ hiddenFields = <<>>
  /\ idx = 0
  /\ meta = NoMeta
  /\ retKind = "none"
  /\ report = NoReport
  /\ completion = <<>>
  /\ riskIn \in [tier : WithMetadata, n : 0..MaxCount, m : 0..MaxCount]
  /\ riskOut = NoRisk
  /\ evals = <<>>
  /\ hung = {}
  /\ handler = IdleHandler
  /\ walk = IdleWalk
  /\ probe = IdleProbe

\* rate the two counts with the table of the tier
ComputeRisk ==
  /\ pc = "risk"
  /\ riskOut' = [ln |-> RiskLevel(riskIn.tier, riskIn.n),
                 lm |-> RiskLevel(riskIn.tier, riskIn.m)]
  /\ pc' = "rated"
  /\ UNCHANGED <<variant, url, page, helpers, browser, task, results,
                 hiddenFields, idx, meta, retKind, report, completion, riskIn,
                 evals, auxVars>>

NextRisk == ComputeRisk

SpecRisk == InitRisk /\ [][NextRisk]_vars

(***************************************************************************)
(* Properties                                                              *)
(***************************************************************************)
\* the scan function has returned to its caller
Returned == pc = "done"
\* it returned through the normal return statement, not the catch block
ReturnedNormally == pc = "done" /\ retKind = "normal"

\* no finding of a sub-frame stands before a finding of the main document
MainFirst(fields) ==
  \A j, k \in 1..Len(fields) :
    j < k => ~(fields[j].src > 0 /\ fields[k].src = 0)

\* C1: in every report a rendered-tier scan returns, all findings of the main
\* document precede all findings of any sub-frame, whatever the order in which
\* the frame evaluations settle (the array the caller holds included, should
\* it still grow)
C1_MainBeforeFrames ==
  (variant \in Rendered /\ Returned) =>
    MainFirst(report.hiddenFields) /\ MainFirst(hiddenFields)

\* C1 witness: a returned advanceScan report with main and frame findings,
\* where the second sub-frame settled before the first
C1_Witness ==
  /\ variant = "advanceScan" /\ ReturnedNormally
  /\ completion = <<2, 1>>
  /\ \E j \in 1..Len(report.hiddenFields) : report.hiddenFields[j].src = 0
  /\ \E j \in 1..Len(report.hiddenFields) : report.hiddenFields[j].src = 2
  /\ \E j \in 1..Len(report.hiddenFields) : report.hiddenFields[j].src = 1

\* every element of seq a occurs in seq b
AllIn(a, b) == \A j \in 1..Len(a) : \E k \in 1..Len(b) : b[k] = a[j]

\* C2: when a rendered-tier scan returns its report through the normal
\* return, every sub-frame evaluation it started has been awaited, the
\* findings of every evaluated sub-frame that does not throw are in the
\* report, and nothing is appended to the report's array after the return
C2_AllCollectedAtReturn ==
  (variant \in Rendered /\ ReturnedNormally) =>
    /\ hiddenFields = report.hiddenFields
    /\ \A i \in FrameIds : task[i] # "pending"
    /\ \A i \in FrameIds :
         (Traversed(i) /\ ~FrameThrows(i)) =>
           AllIn(FrameFields(i), report.hiddenFields)

\* the findings of the sub-frames from k on, in discovery order, a frame that
\* throws contributing none
RECURSIVE HealthyFrameFields(_)
HealthyFrameFields(k) ==
  IF k > NFrames THEN <<>>
  ELSE (IF page.frames[k].throws THEN <<>> ELSE FrameFields(k))
       \o HealthyFrameFields(k + 1)

\* C3: once a sub-frame evaluation has thrown, the scan still returns through
\* its normal return, every other sub-frame has been evaluated, and the report
\* is the main document's findings followed by the findings of the frames that
\* do not throw, exactly as if the throwing frame were not there
C3_FrameIsolation ==
  (variant \in {"advanceScan", "scanPageService"} /\ Returned
     /\ \E i \in FrameIds : task[i] = "failed") =>
    /\ retKind = "normal"
    /\ \A i \in FrameIds : task[i] = (IF page.frames[i].throws THEN "failed" ELSE "ok")
    /\ report.hiddenFields = MainFields \o HealthyFrameFields(1)

\* C3 witness: the first sub-frame threw, the second was evaluated, and the
\* report holds findings of the main document and of the second frame
C3_Witness ==
  /\ variant = "advanceScan" /\ ReturnedNormally
  /\ NFrames = 2 /\ task[1] = "failed" /\ task[2] = "ok"
  /\ \E j \in 1..Len(report.hiddenFields) : report.hiddenFields[j].src = 0
  /\ \E j \in 1..Len(report.hiddenFields) : report.hiddenFields[j].src = 2

\* C4: no execution of a rendered-tier scan ends, by return or by exception,
\* with the browser it launched still open
C4_BrowserClosedAtExit ==
  (variant \in Rendered /\ pc \in {"done", "thrown"}) => browser # "open"

\* C5: a scan function never throws to its caller; on a provider failure it
\* returns zero findings, level low and the single manual re-check
\* recommendation
C5_FailureGivesFallback ==
  variant \in WithMetadata =>
    /\ pc # "thrown"
    /\ (Returned /\ retKind = "fallback") =>
         report = [hiddenFields |-> <<>>, riskLevel |-> "low",
                   recommendations |-> ScanFailed]

\* low < medium < high
Rank(level) == CASE level = "low" -> 0 [] level = "medium" -> 1
                 [] level = "high" -> 2

\* C6: the risk level is monotone in the finding count: 0 findings rate low,
\* and a count m <= n never rates higher than n
C6_RiskMonotone ==
  pc = "rated" =>
    /\ (riskIn.n = 0 => riskOut.ln = "low")
    /\ (riskIn.m <= riskIn.n => Rank(riskOut.lm) <= Rank(riskOut.ln))

\* the document is seven input-like elements, none of declared type hidden,
\* each with visibility: hidden, and nothing else hidden
SevenHiddenByVisibility(doc) ==
  /\ Cardinality({i \in 1..Len(doc) :
                    /\ doc[i].tag \in {"input", "textarea", "select"}
                    /\ doc[i].typeAttr # "hidden"
                    /\ doc[i].visibility = "hidden"}) = 7
  /\ \A i \in 1..Len(doc) :
       doc[i].tag \in {"input", "textarea", "select"} \/ doc[i].visibility # "hidden"

\* C7: a page whose only document holds 7 inputs each hidden by visibility:
\* hidden yields, on either tier, exactly 7 findings and risk level high
C7_SevenIsHigh ==
  (variant \in WithMetadata /\ ReturnedNormally
     /\ SevenHiddenByVisibility(page.main) /\ page.frames = <<>>) =>
    /\ Len(report.hiddenFields) = 7
    /\ report.riskLevel = "high"

\* the document finding f was made in
DocOf(f) == IF f.src = 0 THEN page.main ELSE page.frames[f.src].doc

\* the page has one form holding one input[type=hidden] and no other
\* input-like element
OnlyHiddenTypeInForm ==
  /\ page.frames = <<>>
  /\ Len(page.main) = 2
  /\ page.main[1].tag = "form"
  /\ page.main[2].tag = "input" /\ page.main[2].typeAttr = "hidden"
  /\ page.main[2].parent = 1

\* C8: under the skip-explicit-hidden policy (simpleScan, advanceScan) no
\* finding is ever made for an input of declared type hidden, whatever its
\* style and its ancestors' styles, and a page whose only input-like element
\* is one input[type=hidden] in a form is reported with zero findings and
\* level low
C8_ExplicitHiddenSkipped ==
  variant \in WithMetadata =>
    /\ \A j \in 1..Len(hiddenFields) :
         LET e == DocOf(hiddenFields[j])[hiddenFields[j].el]
         IN ~(e.tag = "input" /\ e.typeAttr = "hidden")
    /\ (ReturnedNormally /\ OnlyHiddenTypeInForm) =>
         report.hiddenFields = <<>> /\ report.riskLevel = "low"

\* C8 witness: a completed advanceScan of a form with visibility: hidden
\* holding an input[type=hidden] that itself has visibility: hidden
C8_Witness ==
  /\ variant = "advanceScan" /\ ReturnedNormally /\ OnlyHiddenTypeInForm
  /\ page.main[1].visibility = "hidden" /\ page.main[2].visibility = "hidden"
  /\ report.hiddenFields = <<>>

\* the position of the piece " (" that opens the location of a reason string
LocationStart(reason) ==
  CHOOSE k \in 0..Len(reason) :
    IF \E j \in 1..Len(reason) : reason[j] = " ("
      THEN k > 0 /\ reason[k] = " ("
      ELSE k = 0

\* the location tag of a finding: its location field, or for the drafts
\* without one what the reason string carries between " (" and ")"
LocationTag(f) ==
  IF f.location # <<>> THEN f.location
  ELSE IF LocationStart(f.reason) = 0 THEN <<>>
  ELSE SubSeq(f.reason, LocationStart(f.reason) + 1, Len(f.reason) - 1)

\* C9: every finding of a report is tagged "main page" and was made in the
\* main document, or is tagged with the iframe tag of a sub-frame that was
\* evaluated in this scan and was made in that frame
C9_LocationTagTruthful ==
  (variant \in {"advanceScan", "scanPageService", "part000", "scanPageJsdom"}
     /\ Returned) =>
    \A j \in 1..Len(report.hiddenFields) :
      LET f == report.hiddenFields[j]
      IN \/ f.src = 0 /\ LocationTag(f) = MainPage
         \/ /\ f.src \in FrameIds
            /\ task[f.src] = "ok"
            /\ LocationTag(f) = IframeTag(page.frames[f.src].url)

\* the document has no input, textarea or select element
NoInputLike(doc) ==
  \A i \in 1..Len(doc) : doc[i].tag \notin {"input", "textarea", "select"}

\* C10: a scan that completes on a page with no input, textarea or select
\* element, in the main document and in every frame, reports zero findings
\* and risk level low
C10_NoInputsNoFindings ==
  (variant \in WithMetadata /\ ReturnedNormally /\ NoInputLike(page.main)
     /\ \A i \in FrameIds : NoInputLike(page.frames[i].doc)) =>
    /\ report.hiddenFields = <<>>
    /\ report.riskLevel = "low"

\* C10 witness: a completed advanceScan of a page whose main document holds
\* a hidden div and a form, and whose sub-frame holds a hidden div, no
\* input-like element anywhere
C10_Witness ==
  /\ variant = "advanceScan" /\ ReturnedNormally
  /\ page.main = DocNoInputs
  /\ NFrames = 1 /\ page.frames[1].doc = FrameDocNoInputs /\ task[1] = "ok"
  /\ report.hiddenFields = <<>> /\ report.riskLevel = "low"

(***************************************************************************)
(* SpecEval: the two evaluators applied to one document                    *)
(*                                                                         *)
(* The probed document is a chain: an outer element, an element inside it  *)
(* and an input-like element inside that.  The input carries up to         *)
(* MaxSignals hiding signals at once, each of the two ancestors at most    *)
(* one.                                                                    *)
(***************************************************************************)
\* the hiding signals of the rendered tier that WithStyle does not know
WithSignal(el, s) ==
  IF s \in Styles THEN WithStyle(el, s)
  ELSE CASE s = "clip"        -> [el EXCEPT !.clip = "rect(0px, 0px, 0px, 0px)"]
         [] s = "clipPath"    -> [el EXCEPT !.clipPath = "inset(100%)"]
         [] s = "fontSize"    -> [el EXCEPT !.fontSize = "0px"]
         [] s = "absLeft"     -> [el EXCEPT !.position = "absolute",
                                            !.left = -9999, !.rectLeft = -9999]
         [] s = "fixedOff"    -> [el EXCEPT !.position = "fixed",
                                            !.rectTop = InnerHeight + 100,
                                            !.rectBottom = InnerHeight + 120]
         [] s = "overflowOff" -> [el EXCEPT !.overflow = "hidden",
                                            !.rectTop = -120, !.rectBottom = -100]
         [] s = "fixedAbove"  -> [el EXCEPT !.position = "fixed",
                                            !.rectTop = -120, !.rectBottom = -100]
         [] s = "fixedLeft"   -> [el EXCEPT !.position = "fixed",
                                            !.rectLeft = -200]
         [] s = "fixedRight"  -> [el EXCEPT !.position = "fixed",
                                            !.rectLeft = InnerWidth + 100]
         [] s = "color"       -> [el EXCEPT !.color = "white"]

Signals == (Styles \ {"none"}) \cup
           {"clip", "clipPath", "fontSize", "absLeft", "fixedOff",
            "overflowOff", "color", "fixedAbove", "fixedLeft", "fixedRight"}

RECURSIVE ApplySignals(_, _)
ApplySignals(el, S) ==
  IF S = {} THEN el
  ELSE LET s == CHOOSE x \in S : TRUE
       IN ApplySignals(WithSignal(el, s), S \ {s})

SignalSets == {S \in SUBSET Signals : Cardinality(S) <= MaxSignals}
AncestorSignals == {"none", "display", "visibility", "opacity", "aria", "clip"}

ProbeDocs ==
  {<<WithSignal(t, g),
     Child(WithSignal(VisibleDiv, p), 1),
     Child(Tagged(ApplySignals(VisibleInput, S), e), 2)>> :
     <<g, p, S, t, e>> \in AncestorSignals \X AncestorSignals \X SignalSets
                           \X {VisibleDiv, VisibleForm} \X {"input", "select"}}

InitEval ==
  /\ variant = "none"
  /\ url = PageUrl
  /\ page = [main |-> DocEmpty, frames |-> <<>>]
  /\ helpers = TRUE
  /\ pc = "eval"
  /\ browser = "none"
  /\ task = <<>>
  /\ results = <<>>
  /\ hiddenFields = <<>>
  /\ idx = 0
  /\ meta = NoMeta
  /\ retKind = "none"
  /\ report = NoReport
  /\ completion = <<>>
  /\ riskIn = [tier |-> "none", n |-> 0, m |-> 0]
  /\ riskOut = NoRisk
  /\ evals = <<>>
  /\ hung = {}
  /\ handler = IdleHandler
  /\ walk = IdleWalk
  /\ probe \in [pc : {"start"}, tier : WithMetadata, doc : ProbeDocs,
                verdict : {<<>>}, fields : {<<>>}]

\* the reason the evaluator of the tier returns for element i alone, as a
\* sequence of pieces (<<>> when it finds the element not hidden)
EvaluatorReason(tier, doc, i) ==
  IF tier = "advanceScan"
    THEN (IF getHiddenReason(doc[i]) = Null THEN <<>>
          ELSE <<getHiddenReason(doc[i])>>)
    ELSE isStaticallyHiddenWithReason(doc, i).reason

\* call the evaluator on every element of the probed document
ProbeEvaluate ==
  /\ probe.pc = "start"
  /\ probe' = [probe EXCEPT
       !.pc = "evaluated",
       !.verdict = [i \in 1..Len(probe.doc) |->
                      EvaluatorReason(probe.tier, probe.doc, i)]]
  /\ UNCHANGED <<scanVars, riskVars, evals, hung, handler, walk>>

\* run the scan of the tier over the probed document
ProbeScan ==
  /\ probe.pc = "evaluated"
  /\ probe' = [probe EXCEPT
       !.pc = "scanned",
       !.fields = IF probe.tier = "advanceScan"
                    THEN AdvEvaluateHiddenFields(probe.doc, 0, MainPage)
                    ELSE SimpleScanFields(probe.doc, url)]
  /\ UNCHANGED <<scanVars, riskVars, evals, hung, handler, walk>>

NextEval == ProbeEvaluate \/ ProbeScan

SpecEval == InitEval /\ [][NextEval]_vars

\* C11: an element whose computed display is none gets the display-none
\* reason from the evaluator of either tier, whatever other hiding signals
\* it or its ancestors carry
C11_DisplayNoneFirst ==
  probe.pc \in {"evaluated", "scanned"} =>
    \A i \in 1..Len(probe.doc) :
      probe.doc[i].display = "none" =>
        probe.verdict[i] = <<"Hidden via display: none">>

\* a display-none input that also is invisible and aria-hidden inside a
\* hidden ancestor has been evaluated on the rendered tier
C11_Witness ==
  /\ probe.pc = "evaluated"
  /\ probe.tier = "advanceScan"
  /\ probe.doc[3].display = "none"
  /\ probe.doc[3].ariaHidden = "true"
  /\ probe.doc[2].opacity = "0"
  /\ probe.verdict[3] = <<"Hidden via display: none">>

\* the reason an element is hidden by itself on a tier, ancestors left aside:
\* the twelve signals of the rendered tier, the four of the static tier
DirectReason(tier, el) ==
  IF tier = "advanceScan" THEN getHiddenReason(el)
  ELSE IF el.display = "none" THEN "Hidden via display: none"
  ELSE IF el.visibility = "hidden" THEN "Hidden via visibility: hidden"
  ELSE IF el.opacity = "0" THEN "Hidden via opacity: 0"
  ELSE IF el.ariaHidden = "true" THEN "Hidden via aria-hidden attribute"
  ELSE Null

\* the nearest ancestor of element i that is hidden by itself, 0 if none
NearestHiddenAncestor(tier, doc, i) ==
  LET chain == Ancestors(doc, i)
      hit == {k \in 1..Len(chain) : DirectReason(tier, doc[chain[k]]) # Null}
  IN IF hit = {} THEN 0
     ELSE chain[CHOOSE k \in hit : \A j \in hit : k <= j]

\* the findings of the probe scan made for element i
ProbeFindingsFor(i) ==
  SelectSeq(probe.fields, LAMBDA f : f.el = i)

\* C12: an input-like element that is not hidden by itself and whose nearest
\* hidden ancestor (parent or grandparent) is hidden by reason R gets one
\* finding whose reason is "Ancestor: " followed directly by R, on both tiers
C12_AncestorWrappedOnce ==
  probe.pc = "scanned" =>
    \A i \in 1..Len(probe.doc) :
      LET a == NearestHiddenAncestor(probe.tier, probe.doc, i)
      IN (/\ probe.doc[i].tag \in {"input", "textarea", "select"}
          /\ probe.doc[i].typeAttr # "hidden"
          /\ DirectReason(probe.tier, probe.doc[i]) = Null
          /\ a # 0)
         => /\ Len(ProbeFindingsFor(i)) = 1
            /\ SubSeq(ProbeFindingsFor(i)[1].reason, 1, 2)
                 = <<"Ancestor: ", DirectReason(probe.tier, probe.doc[a])>>

\* the findings the rendered evaluator of advanceScan makes in sub-frame i,
\* each carrying the tag iframe (<url of the frame>)
TaggedFrameFindings(i) ==
  AdvEvaluateHiddenFields(page.frames[i].doc, i,
                          <<"iframe (", page.frames[i].url, ")">>)

\* C13: a static-tier scan (simpleScan) of a page with sub-frames follows no
\* frame and reports findings of the top document only; a rendered-tier scan
\* (advanceScan) of the same page also reports the findings of every
\* sub-frame that can be evaluated, each tagged iframe (<that frame's URL>)
C13_FramesOnlyOnRenderedTier ==
  /\ (variant = "simpleScan" /\ Returned) =>
       /\ \A j \in 1..Len(report.hiddenFields) : report.hiddenFields[j].src = 0
       /\ \A i \in FrameIds : evals[i] = 0 /\ task[i] = "idle"
       /\ retKind = "normal" => report.hiddenFields = SimpleScanFields(page.main, url)
  /\ (variant = "advanceScan" /\ ReturnedNormally) =>
       \A i \in FrameIds :
         ~page.frames[i].throws =>
           /\ AllIn(TaggedFrameFindings(i), report.hiddenFields)
           /\ \A j \in 1..Len(report.hiddenFields) :
                report.hiddenFields[j].src = i =>
                  \E k \in 1..Len(TaggedFrameFindings(i)) :
                    TaggedFrameFindings(i)[k] = report.hiddenFields[j]

\* C13 witness: the rendered scan of a page whose sub-frame holds a hidden
\* input has returned a report with a finding of that frame
C13_Witness ==
  /\ variant = "advanceScan" /\ ReturnedNormally
  /\ NFrames >= 1 /\ ~page.frames[1].throws
  /\ TaggedFrameFindings(1) # <<>>
  /\ \E j \in 1..Len(report.hiddenFields) :
       /\ report.hiddenFields[j].src = 1
       /\ SubSeq(report.hiddenFields[j].reason, 3, 5)
            = <<"iframe (", page.frames[1].url, ")">>

(***************************************************************************)
(* SpecHandler: scanPageHandler, the HTTP entry point                      *)
(*                                                                         *)
(* Two drafts: "controllerTs" is src/src/controllers/scanPage.controller.ts *)
(* and "part001" is src/unnamed/part_001:175-206.  handler.sent is what    *)
(* went out on the response, handler.attempts counts the calls of          *)
(* res.json, handler.scan names the scan function that was called.         *)
(***************************************************************************)
\* a property missing from the request body
Absent == "<absent>"

HandlerImpls == {"controllerTs", "part001"}
\* req.body.url: a URL, a string that is no URL, the empty string, a number
\* (written as a token), or missing
BodyUrls == {PageUrl, "not a url", "", "<number 42>", Absent}
\* req.body.level
BodyLevels == {"simple", "medium", "advanced", "full", "SIMPLE", "", Absent}

IsString(v) == v \notin {"<number 42>", Absent}
\* z.string().url(): the string parses as a URL
IsUrl(v) == v = PageUrl

\* scanSchema.safeParse(req.body).success
SafeParseSuccess(body) == IsUrl(body.url) /\ IsString(body.level)

\* const { url, level = "simple" } = req.body
DefaultLevel(level) == IF level = Absent THEN "simple" ELSE level

\* the scan functions the handlers call: their tier and whether they go on
\* to the sub-frames of the page
ScanTier(fn) ==
  CASE fn \in {"detectHiddenFormsWithJSDOM", "simpleJsdomScan"} -> "static"
    [] fn \in {"detectHiddenFormsWithPuppeteer", "puppeteerScan"} -> "rendered"
    [] OTHER -> "none"
FollowsFrames(fn) == fn = "detectHiddenFormsWithPuppeteer"
\* the scan can reject: detectHiddenFormsWithJSDOM catches everything,
\* detectHiddenFormsWithPuppeteer launches outside its try block, and the two
\* scans of part_001 have no try block
ScanCanReject(fn) == fn # "detectHiddenFormsWithJSDOM"
\* the scan can resolve: the scans of part_001 reject a string that is no URL
ScanCanResolve(fn, u) ==
  fn \in {"simpleJsdomScan", "puppeteerScan"} => IsUrl(u)

\* res.status(code).json(...): writes the response, or throws
\* ERR_HTTP_HEADERS_SENT when one was written before
ResJson(h, code, okPc, errPc) ==
  IF h.sent = <<>>
    THEN [h EXCEPT !.sent = <<code>>, !.attempts = @ + 1, !.pc = okPc]
    ELSE [h EXCEPT !.attempts = @ + 1, !.pc = errPc]

InitHandler ==
  /\ variant = "none"
  /\ url = PageUrl
  /\ page = [main |-> DocEmpty, frames |-> <<>>]
  /\ helpers = TRUE
  /\ pc = "handler"
  /\ browser = "none"
  /\ task = <<>>
  /\ results = <<>>
  /\ hiddenFields = <<>>
  /\ idx = 0
  /\ meta = NoMeta
  /\ retKind = "none"
  /\ report = NoReport
  /\ completion = <<>>
  /\ riskIn = [tier |-> "none", n |-> 0, m |-> 0]
  /\ riskOut = NoRisk
  /\ evals = <<>>
  /\ hung = {}
  /\ walk = IdleWalk
  /\ probe = IdleProbe
  /\ handler \in [pc : {"start"}, impl : HandlerImpls,
                  body : [url : BodyUrls, level : BodyLevels],
                  level : {Absent}, scan : {"none"}, headless : {Absent},
                  sent : {<<>>}, attempts : {0}]

HandlerUnchanged == UNCHANGED <<scanVars, riskVars, evals, hung, walk, probe>>

\* the validation at the top of the handler
HandlerValidate ==
  /\ handler.pc = "start"
  /\ handler' =
       IF handler.impl = "controllerTs"
         THEN (IF ~SafeParseSuccess(handler.body)
                 THEN ResJson(handler, 400, "done", "done")
                 ELSE [handler EXCEPT !.level = handler.body.level,
                                      !.pc = "switch"])
         ELSE (IF handler.body.url \in {"", Absent} \/ ~IsString(handler.body.url)
                 THEN ResJson(handler, 400, "done", "done")
                 ELSE [handler EXCEPT !.level = DefaultLevel(handler.body.level),
                                      !.pc = "switch"])
  /\ HandlerUnchanged

\* switch (level)
HandlerSwitch ==
  /\ handler.pc = "switch"
  /\ handler' =
       IF handler.impl = "controllerTs"
         THEN CASE handler.level = "simple" ->
                     [handler EXCEPT !.scan = "detectHiddenFormsWithJSDOM",
                                     !.pc = "await"]
                [] handler.level = "advanced" ->
                     [handler EXCEPT !.scan = "detectHiddenFormsWithPuppeteer",
                                     !.headless = "true", !.pc = "await"]
                [] OTHER -> ResJson(handler, 400, "respond", "catch")
         ELSE CASE handler.level = "simple" ->
                     [handler EXCEPT !.scan = "simpleJsdomScan", !.pc = "await"]
                [] handler.level = "medium" ->
                     [handler EXCEPT !.scan = "puppeteerScan",
                                     !.headless = "shell", !.pc = "await"]
                [] handler.level = "advanced" ->
                     [handler EXCEPT !.scan = "puppeteerScan",
                                     !.headless = "true", !.pc = "await"]
                [] OTHER -> ResJson(handler, 400, "done", "catch")
  /\ HandlerUnchanged

\* the awaited scan resolves
ScanResolves ==
  /\ handler.pc = "await"
  /\ ScanCanResolve(handler.scan, handler.body.url)
  /\ handler' = [handler EXCEPT !.pc = "respond"]
  /\ HandlerUnchanged

\* the awaited scan rejects
ScanRejects ==
  /\ handler.pc = "await"
  /\ ScanCanReject(handler.scan)
  /\ handler' = [handler EXCEPT !.pc = "catch"]
  /\ HandlerUnchanged

\* res.json({ scanLevel: level, ...result })
HandlerRespond ==
  /\ handler.pc = "respond"
  /\ handler' = ResJson(handler, 200, "done", "catch")
  /\ HandlerUnchanged

\* catch: res.status(500).json(...); a throw here rejects the handler
HandlerCatch ==
  /\ handler.pc = "catch"
  /\ handler' = ResJson(handler, 500, "done", "rejected")
  /\ HandlerUnchanged

NextHandler ==
  \/ HandlerValidate \/ HandlerSwitch \/ ScanResolves \/ ScanRejects
  \/ HandlerRespond \/ HandlerCatch

SpecHandler == InitHandler /\ [][NextHandler]_vars

\* the handler has run to its end
HandlerEnded == handler.pc \in {"done", "rejected"}
\* the levels the scan entry point is specified to accept
SupportedLevels == {"simple", "medium", "advanced"}

\* C14: a request is answered by exactly one call of res.json, the handler
\* does not end in a rejection, and a request whose level is given but not
\* supported is answered 400 without any scan having been called
C14_OneResponsePerRequest ==
  HandlerEnded =>
    /\ handler.pc = "done"
    /\ Len(handler.sent) = 1 /\ handler.attempts = 1
    /\ (handler.body.level \notin SupportedLevels \cup {Absent}) =>
         handler.sent = <<400>> /\ handler.scan = "none"

\* C15: for a request with a valid URL, level simple calls a static-tier
\* scan that follows no frame, levels medium and advanced call a rendered-tier
\* scan that goes on to the sub-frames and are not answered 400, and any
\* other level that is given calls no scan
C15_ThreeLevels ==
  (HandlerEnded /\ IsUrl(handler.body.url)) =>
    /\ handler.body.level = "simple" =>
         /\ ScanTier(handler.scan) = "static"
         /\ ~FollowsFrames(handler.scan)
    /\ handler.body.level \in {"medium", "advanced"} =>
         /\ ScanTier(handler.scan) = "rendered"
         /\ FollowsFrames(handler.scan)
         /\ handler.sent # <<400>>
    /\ handler.body.level \notin SupportedLevels \cup {Absent} =>
         handler.scan = "none"

\* the wordings of the two recommendations in the two services
ReviewRecommendation ==
  "Review hidden fields to ensure they are not used for malicious autofill."
BlockRecommendations ==
  {"Block autofill on hidden or suspicious fields.",
   "Consider blocking autofill on suspicious or hidden fields."}

Contains(seq, S) == \E j \in 1..Len(seq) : seq[j] \in S

\* C16: a scan of either service that completes with n findings recommends,
\* for n > 0, both reviewing the hidden fields and blocking autofill on them,
\* and for n = 0 gives the single message that nothing suspicious was found
C16_Recommendations ==
  (variant \in WithMetadata /\ ReturnedNormally) =>
    IF Len(report.hiddenFields) > 0
      THEN /\ Contains(report.recommendations, {ReviewRecommendation})
           /\ Contains(report.recommendations, BlockRecommendations)
      ELSE report.recommendations = <<"No suspicious hidden fields detected.">>

\* C16 witness: a rendered scan has completed with findings and recommends
\* both the review and the blocking
C16_Witness ==
  /\ variant = "advanceScan" /\ ReturnedNormally
  /\ Len(report.hiddenFields) > 0
  /\ Len(report.recommendations) = 2
  /\ report.recommendations[1] = ReviewRecommendation
  /\ report.recommendations[2] \in BlockRecommendations

(***************************************************************************)
(* SpecWalk: the ancestor walk over an arbitrary parent relation           *)
(*                                                                         *)
(* walk.parent maps each node to its parentElement (0 = none) and need not *)
(* be a tree.  "advanceScan" (hasHiddenAncestor, advanceScan.service.ts)   *)
(* and "scanPageService" (hasHiddenAncestor, scanPage.service.ts:208-217)  *)
(* are one while loop; "simpleScan" (hasStaticallyHiddenAncestor) calls,   *)
(* for each parent, isStaticallyHiddenWithReason, which starts a nested    *)
(* walk from that parent.  walk.stack holds one frame per walk in          *)
(* progress, the innermost last: `cur` is its variable `parent`, `visited` *)
(* (history) the nodes its loop has passed.                                *)
(***************************************************************************)
Nodes == 1..MaxNodes
WalkImpls == {"advanceScan", "scanPageService", "simpleScan"}

InitWalk ==
  /\ variant = "none"
  /\ url = PageUrl
  /\ page = [main |-> DocEmpty, frames |-> <<>>]
  /\ helpers = TRUE
  /\ pc = "walk"
  /\ browser = "none"
  /\ task = <<>>
  /\ results = <<>>
  /\ hiddenFields = <<>>
  /\ idx = 0
  /\ meta = NoMeta
  /\ retKind = "none"
  /\ report = NoReport
  /\ completion = <<>>
  /\ riskIn = [tier |-> "none", n |-> 0, m |-> 0]
  /\ riskOut = NoRisk
  /\ evals = <<>>
  /\ hung = {}
  /\ handler = IdleHandler
  /\ probe = IdleProbe
  /\ walk \in [pc : {"start"}, impl : WalkImpls,
               parent : [Nodes -> 0..MaxNodes], hid : SUBSET Nodes,
               start : Nodes, stack : {<<>>}, result : {Undefined}]

WalkUnchanged == UNCHANGED <<scanVars, riskVars, evals, hung, handler, probe>>

WalkFrame(n) == [cur |-> n, visited |-> {}]
WalkTop == walk.stack[Len(walk.stack)]
WalkPop == SubSeq(walk.stack, 1, Len(walk.stack) - 1)
\* the frame f after `parent = parent.parentElement`
WalkMoveUp(f) == [cur |-> walk.parent[f.cur], visited |-> f.visited \cup {f.cur}]

\* let parent = el.parentElement
WalkEnter ==
  /\ walk.pc = "start"
  /\ walk' = [walk EXCEPT !.stack = <<WalkFrame(walk.parent[walk.start])>>,
                          !.pc = "loop"]
  /\ WalkUnchanged

\* while (parent) fails: return the not-hidden result; a nested walk hands
\* it to the loop that called it, which moves to the next parent
WalkReturnNotHidden ==
  /\ walk.pc = "loop" /\ WalkTop.cur = 0
  /\ walk' = IF Len(walk.stack) = 1
               THEN [walk EXCEPT !.result = "not hidden", !.pc = "done"]
               ELSE [walk EXCEPT !.stack =
                       SubSeq(WalkPop, 1, Len(WalkPop) - 1)
                         \o <<WalkMoveUp(WalkPop[Len(WalkPop)])>>]
  /\ WalkUnchanged

\* the parent is hidden by itself: every walk in progress returns hidden
WalkFoundHidden ==
  /\ walk.pc = "loop" /\ WalkTop.cur # 0 /\ WalkTop.cur \in walk.hid
  /\ walk' = [walk EXCEPT !.result = "hidden", !.pc = "done"]
  /\ WalkUnchanged

\* the two while loops: the parent is not hidden, parent = parent.parentElement
WalkAdvance ==
  /\ walk.pc = "loop" /\ walk.impl # "simpleScan"
  /\ WalkTop.cur # 0 /\ WalkTop.cur \notin walk.hid
  /\ walk' = [walk EXCEPT !.stack = WalkPop \o <<WalkMoveUp(WalkTop)>>]
  /\ WalkUnchanged

\* simpleScan: the parent is not hidden by itself, so
\* isStaticallyHiddenWithReason(parent) walks the parent's own ancestors;
\* the call throws RangeError when the stack is exhausted
WalkRecurse ==
  /\ walk.pc = "loop" /\ walk.impl = "simpleScan"
  /\ WalkTop.cur # 0 /\ WalkTop.cur \notin walk.hid
  /\ walk' = IF Len(walk.stack) >= MaxStack
               THEN [walk EXCEPT !.result = "RangeError", !.pc = "thrown"]
               ELSE [walk EXCEPT !.stack =
                       @ \o <<WalkFrame(walk.parent[WalkTop.cur])>>]
  /\ WalkUnchanged

NextWalk ==
  \/ WalkEnter \/ WalkReturnNotHidden \/ WalkFoundHidden
  \/ WalkAdvance \/ WalkRecurse

SpecWalk == InitWalk /\ [][NextWalk]_vars

\* the nodes the parent chain has passed on the way to the current one
WalkSeen ==
  {walk.start}
    \cup UNION {walk.stack[k].visited : k \in 1..Len(walk.stack)}
    \cup {walk.stack[k].cur : k \in 1..(Len(walk.stack) - 1)}

\* C17: the ancestor walk never throws, and when its parent chain comes back
\* to a node it has already passed, its next step is to stop and return the
\* not-hidden result
C17_WalkCycleSafe ==
  [][/\ walk'.pc # "thrown"
     /\ (walk.pc = "loop" /\ WalkTop.cur \in WalkSeen) =>
          (walk'.pc = "done" /\ walk'.result = "not hidden")]_vars

(***************************************************************************)
(* SpecHang: the scans of Spec on pages where the evaluation of at most    *)
(* one sub-frame never settles                                             *)
(*                                                                         *)
(* Neither frame.evaluate call is given a timeout by the source, so a      *)
(* frame in `hung` neither resolves nor rejects while the browser is open; *)
(* closing the browser rejects it.  An evaluation that the library itself  *)
(* gives up on (a protocol timeout of the installed puppeteer) rejects and *)
(* is a frame that throws, not a frame in `hung`.  Fairness: the event     *)
(* loop runs every step that is ready, so a scan does not stop while one   *)
(* of its steps is enabled.                                                *)
(***************************************************************************)
InitHang ==
  /\ variant \in Variants
  /\ url \in Urls
  /\ page \in Pages
  /\ helpers \in (IF variant = "part000" THEN BOOLEAN ELSE {TRUE})
  /\ pc = "start"
  /\ browser = "none"
  /\ task = [i \in FrameIds |-> "idle"]
  /\ results = [i \in FrameIds |-> <<>>]
  /\ hiddenFields = <<>>
  /\ idx = 0
  /\ meta = NoMeta
  /\ retKind = "none"
  /\ report = NoReport
  /\ completion = <<>>
  /\ riskIn = [tier |-> "none", n |-> 0, m |-> 0]
  /\ riskOut = NoRisk
  /\ evals = [i \in 0..NFrames |-> 0]
  /\ hung \in {H \in SUBSET FrameIds : Cardinality(H) <= 1}
  /\ handler = IdleHandler
  /\ walk = IdleWalk
  /\ probe = IdleProbe

SpecHang == InitHang /\ [][Next]_vars /\ WF_vars(Next)

\* the scan function has returned or thrown
Ended == pc \in {"done", "thrown"}

\* the findings of the sub-frames from k on that neither throw nor hang
RECURSIVE SettlingFrameFields(_)
SettlingFrameFields(k) ==
  IF k > NFrames THEN <<>>
  ELSE (IF page.frames[k].throws \/ k \in hung THEN <<>> ELSE FrameFields(k))
       \o SettlingFrameFields(k + 1)

DiscoveredBefore(f, g) ==
  f.src < g.src \/ (f.src = g.src /\ f.el < g.el)

\* C19: in the report of a rendered-tier scan (advanceScan, part000) the
\* findings stand in discovery order, frame by frame in the order of
\* page.frames() and element by element inside a frame, whatever the order
\* in which the frame evaluations completed
C19_DiscoveryOrder ==
  (variant \in {"advanceScan", "part000"} /\ ReturnedNormally) =>
    \A j, k \in 1..Len(report.hiddenFields) :
      j < k => DiscoveredBefore(report.hiddenFields[j], report.hiddenFields[k])

\* C20: a rendered-tier scan (advanceScan, part000) that returns through its
\* normal return has handed the main document to the evaluator exactly once
\* and every sub-frame of the page exactly once, a sub-frame whose URL is the
\* URL of the page included
C20_EachFrameOnce ==
  (variant \in {"advanceScan", "part000"} /\ ReturnedNormally) =>
    \A i \in 0..NFrames : evals[i] = 1

\* one of the four signals of the static tier is set on the element itself
StaticSignal(el) ==
  \/ el.display = "none"
  \/ el.visibility = "hidden"
  \/ el.opacity = "0"
  \/ el.ariaHidden = "true"

\* ... on element i of doc or on one of its ancestors
StaticSignalOnChain(doc, i) ==
  \/ StaticSignal(doc[i])
  \/ \E k \in 1..Len(Ancestors(doc, i)) : StaticSignal(doc[Ancestors(doc, i)[k]])

\* C21: a static-tier scan reports an element whose declared type is not
\* hidden only if display none, visibility hidden, opacity 0 or aria-hidden
\* is set on the element or on one of its ancestors; geometry alone (offset
\* or computed width / height of 0) gives no finding
C21_StaticSignalsOnly ==
  (variant \in Static /\ ReturnedNormally) =>
    \A j \in 1..Len(report.hiddenFields) :
      LET i == report.hiddenFields[j].el
      IN page.main[i].typeAttr # "hidden" => StaticSignalOnChain(page.main, i)

\* element i of doc has no enclosing form
IsOrphan(doc, i) ==
  \A k \in 1..Len(Ancestors(doc, i)) : doc[Ancestors(doc, i)[k]].tag # "form"

\* the qualifiers the two static drafts put on the finding of an orphan
OrphanQualifiers == {" (orphan input)", "Hidden input not within a form"}

\* C22: a static-tier scan reports every input, textarea and select of the
\* document (declared type other than hidden) that carries a static-tier
\* signal on itself or on an ancestor, inside a form or not, and the finding
\* of one that has no enclosing form carries the orphan qualifier
C22_EveryInputLikeReported ==
  (variant \in Static /\ ReturnedNormally) =>
    \A i \in 1..Len(page.main) :
      (/\ page.main[i].tag \in {"input", "textarea", "select"}
       /\ page.main[i].typeAttr # "hidden"
       /\ StaticSignalOnChain(page.main, i)) =>
        \E j \in 1..Len(report.hiddenFields) :
          /\ report.hiddenFields[j].el = i
          /\ IsOrphan(page.main, i) =>
               Contains(report.hiddenFields[j].reason, OrphanQualifiers)

\* the bounding rect of el lies fully outside the viewport: above it, below
\* it, left of it or right of it
RectOutsideViewport(el) ==
  \/ el.rectBottom <= 0
  \/ el.rectTop >= InnerHeight
  \/ el.rectLeft + el.rectWidth <= 0
  \/ el.rectLeft >= InnerWidth

\* a signal that stands before the fixed-off-screen one in the priority order
\* of the rendered tier fires for el
HigherThanFixed(el) ==
  \/ el.display = "none"
  \/ el.visibility = "hidden"
  \/ el.opacity = "0"
  \/ el.clip \notin {"auto", "rect(auto, auto, auto, auto)"}
  \/ el.clipPath # "none"
  \/ el.fontSize = "0px"
  \/ (el.position = "absolute" /\ el.left <= -9999)

\* C23: on the rendered tier an element with position fixed whose bounding
\* rect lies fully outside the viewport in any of the four directions, and
\* for which no signal of higher priority fires, gets the fixed-off-screen
\* reason
C23_FixedOffScreenAnyDirection ==
  (probe.pc \in {"evaluated", "scanned"} /\ probe.tier = "advanceScan") =>
    \A i \in 1..Len(probe.doc) :
      (/\ probe.doc[i].position = "fixed"
       /\ RectOutsideViewport(probe.doc[i])
       /\ ~HigherThanFixed(probe.doc[i])) =>
        probe.verdict[i] = <<"Hidden via fixed off-screen positioning">>

\* the bound the selector of a finding is to keep
MaxSelectorLength == 100

\* C24: the selector of every finding a scan reports (simpleScan,
\* scanPageJsdom, advanceScan) has at most 100 characters, for form-bound and
\* orphan elements alike, however long the markup, the name and the form's
\* action are
C24_SelectorBounded ==
  (variant \in {"simpleScan", "scanPageJsdom", "advanceScan"} /\ ReturnedNormally) =>
    \A j \in 1..Len(report.hiddenFields) :
      report.hiddenFields[j].selector.len <= MaxSelectorLength

\* C25: in the report of one scan (simpleScan, scanPageJsdom, advanceScan) no
\* two findings are made for the same element of the same document, whether
\* the element sits in a form, in nested forms or in none
C25_OneFindingPerElement ==
  (variant \in {"simpleScan", "scanPageJsdom", "advanceScan"} /\ ReturnedNormally) =>
    \A j, k \in 1..Len(report.hiddenFields) :
      (/\ report.hiddenFields[j].src = report.hiddenFields[k].src
       /\ report.hiddenFields[j].el = report.hiddenFields[k].el) => j = k

====
